---- MODULE Spec2Model ----
(***************************************************************************)
(* Model of the energy-trading REST service (app/schemas.py, app/crud.py,  *)
(* app/models.py, app/main.py): request validation, the trades table and   *)
(* the create / list / lookup handlers.                                    *)
(*                                                                         *)
(* A Python str is a sequence of characters; a character is a one-letter   *)
(* TLA+ string.  None (an absent Optional[str]) is the value NoneStr.      *)
(***************************************************************************)
EXTENDS Integers, Sequences, FiniteSets, TLC

\* ------------------------------------------------------------------ bounds
MaxTrades == 2
MaxClock == 1
MaxBurn == 1

\* ------------------------------------------------------- program constants
CommodityMaxLen == 50
TraderIdMaxLen == 100
StrMinLen == 1

\* ------------------------------------------------------------- characters
UpperLetters == <<"A","B","C","D","E","F","G","H","I","J","K","L","M",
                  "N","O","P","Q","R","S","T","U","V","W","X","Y","Z">>
LowerLetters == <<"a","b","c","d","e","f","g","h","i","j","k","l","m",
                  "n","o","p","q","r","s","t","u","v","w","x","y","z">>
Digits == {"0","1","2","3","4","5","6","7","8","9"}
Range(f) == {f[i] : i \in DOMAIN f}

UpperSet == Range(UpperLetters)
LowerOf == [ch \in UpperSet |->
              LowerLetters[CHOOSE i \in DOMAIN UpperLetters : UpperLetters[i] = ch]]

\* str.lower(), one character
LowerChar(ch) == IF ch \in UpperSet THEN LowerOf[ch] ELSE ch

\* str.lower()
Lower(s) == [i \in DOMAIN s |-> LowerChar(s[i])]

\* one character of str.isalnum()
AlnumChars == Range(UpperLetters) \cup Range(LowerLetters) \cup Digits
IsAlnumChar(ch) == ch \in AlnumChars

\* str.isalnum(): every character alphanumeric and at least one character
IsAlnum(s) == Len(s) >= 1 /\ \A i \in DOMAIN s : IsAlnumChar(s[i])

\* 'x' in v
Contains(s, ch) == \E i \in DOMAIN s : s[i] = ch

\* None, and the truth value of an Optional[str] (None and '' are falsy)
NoneStr == <<"<None>">>
Truthy(s) == s # NoneStr /\ s # <<>>

\* ---------------------------------------------------------------- literals
electricity == <<"e","l","e","c","t","r","i","c","i","t","y">>
oil == <<"o","i","l">>
gas == <<"g","a","s">>
coal == <<"c","o","a","l">>
natural_gas == <<"n","a","t","u","r","a","l","_","g","a","s">>
renewable == <<"r","e","n","e","w","a","b","l","e">>
buy == <<"b","u","y">>
sell == <<"s","e","l","l">>

\* ------------------------------------------------- schemas.TradeBase fields
allowed_commodities == {electricity, oil, gas, coal, natural_gas, renewable}

\* (mutant) validate_commodity tests v, not v.lower(), against the list
CommodityOkAsSent(v) ==
    /\ Len(v) >= StrMinLen
    /\ Len(v) <= CommodityMaxLen
    /\ v \in allowed_commodities

\* commodity: Field(min_length=1, max_length=50) then validate_commodity
CommodityOk(v) ==
    /\ Len(v) >= StrMinLen
    /\ Len(v) <= CommodityMaxLen
    /\ Lower(v) \in allowed_commodities

\* (mutant) validate_commodity returns v
validate_commodity_as_sent(v) == v

\* validate_commodity returns v.lower()
validate_commodity(v) == Lower(v)

\* (mutant) price: Field(ge=0)
PriceOkZero(p) == p >= 0

\* price: Field(gt=0)
PriceOk(p) == p > 0

\* quantity: Field(gt=0)
QuantityOk(q) == q > 0

\* side: Literal["buy", "sell"]
SideOk(s) == s \in {buy, sell}

\* validate_trader_id: raises only when v is not alphanumeric AND holds
\* neither '_' nor '-'
validate_trader_id_ok(v) == ~(~IsAlnum(v) /\ ~Contains(v, "_") /\ ~Contains(v, "-"))

\* trader_id: Field(min_length=1, max_length=100) then validate_trader_id
TraderIdOk(v) ==
    /\ Len(v) >= StrMinLen
    /\ Len(v) <= TraderIdMaxLen
    /\ validate_trader_id_ok(v)

\* TradeCreate(**body) succeeds: every field validates
Valid(cand) ==
    /\ CommodityOk(cand.commodity)
    /\ PriceOk(cand.price)
    /\ QuantityOk(cand.quantity)
    /\ SideOk(cand.side)
    /\ TraderIdOk(cand.trader_id)

\* (mutant) a TradeCreate that keeps the fields it does not declare
NormalizeKeepingExtras(cand) ==
    [cand EXCEPT !.commodity = validate_commodity(cand.commodity)]

\* the validated TradeCreate as trade.dict(): the five declared fields,
\* commodity lowercased, the rest as given; fields the schema does not
\* declare are dropped
Normalize(cand) ==
    [commodity |-> validate_commodity(cand.commodity), price |-> cand.price,
     quantity |-> cand.quantity, side |-> cand.side, trader_id |-> cand.trader_id]

\* ------------------------------------------------------------------- state
Clients == {"c1", "c2"}
\* requests as far as their get_db dependency goes
Requests == {"r1", "r2", "r3"}

VARIABLES
    store,    \* the trades table: rows in insertion order
    nextId,   \* the identity counter behind Trade.id (primary key)
    now,      \* the database clock behind func.now()
    pc,       \* per request slot: where its handler stands
    local,    \* per request slot: the handler's locals (db_trade / trades)
    resp,     \* the response sent by the step just taken, NoResp if none
    pager,    \* a caller reading GET /trades/ page after page
    tables_created,  \* main.tables_created, the process-wide flag
    dep,      \* per request: where its get_db dependency stands
    create_all_done, \* how many Base.metadata.create_all calls have returned
    session,  \* per request: SessionLocal() and close() calls of its get_db
    conn      \* database.test_connection: its position, loop index and tally

\* the variables of get_db
getDbVars == <<tables_created, dep, create_all_done, session>>

\* the process-level variables
procVars == <<getDbVars, conn>>

\* the variables of the trade operations
tradeVars == <<store, nextId, now, pc, local, resp, pager>>

vars == <<store, nextId, now, pc, local, resp, pager, procVars>>

NoLocal == [kind |-> "none"]
NoSession == [opened |-> 0, closed |-> 0]
\* db = SessionLocal(): the request's session, not closed yet
Opened == [opened |-> 1, closed |-> 0]
NoResp == [status |-> 0]

Init ==
    /\ store = <<>>
    /\ nextId = 1
    /\ now = 0
    /\ pc = [c \in Clients |-> "idle"]
    /\ local = [c \in Clients |-> NoLocal]
    /\ resp = NoResp
    /\ pager = [state |-> "off"]
    /\ tables_created = FALSE
    /\ dep = [r \in Requests |-> "none"]
    /\ create_all_done = 0
    /\ session = [r \in Requests |-> NoSession]
    /\ conn = [pc |-> "idle", attempt |-> 0, attempts |-> 0, waits |-> 0,
               left |-> 0, result |-> "none"]

Rows == Range(store)
InFlightCreates == Cardinality({c \in Clients : pc[c] \in {"flush", "commit"}})
\* identity values used by statements or transactions that failed
Burned == nextId - 1 - Len(store) - Cardinality({c \in Clients : pc[c] = "commit"})

\* HTTP statuses: a handler's normal return, its HTTPException(400) and
\* HTTPException(404), FastAPI's answer to a body that fails validation
Http200 == 200
Http400 == 400
Http404 == 404
Http422 == 422
Http500 == 500

\* ------------------------------------------------------------ models.Trade
\* the row INSERTed for db_trade = models.Trade(**t): a column the keyword
\* arguments do not set gets its default, id from the identity column and
\* timestamp from server_default=func.now()
NewRow(t, id, ts) ==
    [id |-> IF "id" \in DOMAIN t THEN t.id ELSE id,
     commodity |-> t.commodity, price |-> t.price,
     quantity |-> t.quantity, side |-> t.side, trader_id |-> t.trader_id,
     timestamp |-> IF "timestamp" \in DOMAIN t THEN t.timestamp ELSE ts]

\* (mutant) the identity column does not advance
NextIdentityStuck(n) == n

\* the identity column's next value
NextIdentity(n) == n + 1

\* (mutant) the INSERT replaces the table's rows
InsertedAlone(tbl, row) == <<row>>

\* the table after the INSERT commits
Inserted(tbl, row) == Append(tbl, row)

\* ------------------------------------------------------ POST /trades/ steps
\* the body fails TradeCreate validation: FastAPI answers 422, the handler
\* and the session never run
PostTradeInvalid(c, body) ==
    /\ pc[c] = "idle"
    /\ ~Valid(body)
    /\ resp' = [status |-> Http422, client |-> c, op |-> "create", body |-> body]
    /\ UNCHANGED <<store, nextId, now, pc, local, pager, procVars>>

\* crud.create_trade up to db.add: db_trade = models.Trade(**trade.dict())
PostTradeValid(c, body) ==
    /\ pc[c] = "idle"
    /\ Valid(body)
    /\ Len(store) + InFlightCreates < MaxTrades
    /\ pc' = [pc EXCEPT ![c] = "flush"]
    /\ local' = [local EXCEPT ![c] =
                   [kind |-> "db_trade", id |-> 0, body |-> body, t |-> Normalize(body)]]
    /\ resp' = NoResp
    /\ UNCHANGED <<store, nextId, now, pager, procVars>>

\* db.commit(), first round trip: the session flushes the INSERT; the
\* database assigns id and timestamp inside the open transaction
InsertOk(c) ==
    /\ pc[c] = "flush"
    /\ local' = [local EXCEPT ![c].id = nextId,
                              ![c].t = NewRow(local[c].t, nextId, now)]
    /\ nextId' = NextIdentity(nextId)
    /\ pc' = [pc EXCEPT ![c] = "commit"]
    /\ resp' = NoResp
    /\ UNCHANGED <<store, now, pager, procVars>>

\* the INSERT raises: nothing is stored and the handler answers 400.  The
\* failed statement may have used up an identity value (burn = 1).
InsertFail(c, burn) ==
    /\ pc[c] = "flush"
    /\ burn > 0 => Burned < MaxBurn
    /\ nextId' = nextId + burn
    /\ pc' = [pc EXCEPT ![c] = "idle"]
    /\ local' = [local EXCEPT ![c] = NoLocal]
    /\ resp' = [status |-> Http400, client |-> c, op |-> "create",
                body |-> local[c].body, db_trade_id |-> local[c].id]
    /\ UNCHANGED <<store, now, pager, procVars>>

\* db.commit(), second round trip: the transaction commits and the row
\* becomes part of the table
CommitOk(c) ==
    /\ pc[c] = "commit"
    /\ store' = Inserted(store, local[c].t)
    /\ pc' = [pc EXCEPT ![c] = "refresh"]
    /\ resp' = NoResp
    /\ UNCHANGED <<nextId, now, local, pager, procVars>>

\* the COMMIT raises: the transaction is rolled back when get_db closes the
\* session, the identity value stays used; the handler answers 400
CommitFail(c) ==
    /\ pc[c] = "commit"
    /\ Burned < MaxBurn
    /\ pc' = [pc EXCEPT ![c] = "idle"]
    /\ local' = [local EXCEPT ![c] = NoLocal]
    /\ resp' = [status |-> Http400, client |-> c, op |-> "create",
                body |-> local[c].body, db_trade_id |-> local[c].id]
    /\ UNCHANGED <<store, nextId, now, pager, procVars>>

\* db.refresh(db_trade) succeeds: the row is read back by primary key and
\* returned
RefreshOk(c) ==
    /\ pc[c] = "refresh"
    /\ \E row \in Rows :
          /\ row.id = local[c].id
          /\ resp' = [status |-> Http200, client |-> c, op |-> "create",
                      body |-> local[c].body, trade |-> row]
    /\ pc' = [pc EXCEPT ![c] = "idle"]
    /\ local' = [local EXCEPT ![c] = NoLocal]
    /\ UNCHANGED <<store, nextId, now, pager, procVars>>

\* db.refresh(db_trade) raises after the commit: the handler answers 400
RefreshFail(c) ==
    /\ pc[c] = "refresh"
    /\ pc' = [pc EXCEPT ![c] = "idle"]
    /\ local' = [local EXCEPT ![c] = NoLocal]
    /\ resp' = [status |-> Http400, client |-> c, op |-> "create",
                body |-> local[c].body, db_trade_id |-> local[c].id]
    /\ UNCHANGED <<store, nextId, now, pager, procVars>>

\* the database clock advances
Tick ==
    /\ now < MaxClock
    /\ now' = now + 1
    /\ resp' = NoResp
    /\ UNCHANGED <<store, nextId, pc, local, pager, procVars>>

\* ------------------------------------------------------------ crud queries
Min(a, b) == IF a < b THEN a ELSE b

\* (mutant) the WHERE clause with the side compared as sent
MatchesSideAsSent(row, commodity, trader_id, side) ==
    /\ Truthy(commodity) => row.commodity = Lower(commodity)
    /\ Truthy(trader_id) => row.trader_id = trader_id
    /\ Truthy(side) => row.side = side

\* the WHERE clause get_trades and get_trades_count build: a filter is
\* applied only when its argument is truthy
Matches(row, commodity, trader_id, side) ==
    /\ Truthy(commodity) => row.commodity = Lower(commodity)
    /\ Truthy(trader_id) => row.trader_id = trader_id
    /\ Truthy(side) => row.side = Lower(side)

Filtered(tbl, commodity, trader_id, side) ==
    {row \in Range(tbl) : Matches(row, commodity, trader_id, side)}

\* every arrangement of the rows, each row once
Arrangements(rows) ==
    {s \in [1..Cardinality(rows) -> rows] :
        \A i, j \in DOMAIN s : i # j => s[i] # s[j]}

\* (mutant) ORDER BY timestamp, ascending
OrderByTimestampAsc(rows) ==
    {s \in Arrangements(rows) :
        \A i, j \in DOMAIN s : i < j => s[i].timestamp <= s[j].timestamp}

\* ORDER BY timestamp DESC: the orders a result can come back in.  The
\* statement names no second sort key, so rows of equal timestamp come back
\* in an order the database picks, per statement.
OrderByTimestampDesc(rows) ==
    {s \in Arrangements(rows) :
        \A i, j \in DOMAIN s : i < j => s[i].timestamp >= s[j].timestamp}

\* .offset(offset).limit(limit)
OffsetLimit(s, offset, limit) ==
    SubSeq(s, offset + 1, Min(Len(s), offset + limit))

\* .limit(limit)
Limit(s, limit) == SubSeq(s, 1, Min(Len(s), limit))

\* crud.get_trades: the results the query can return
get_trades(tbl, limit, offset, commodity, trader_id, side) ==
    {OffsetLimit(s, offset, limit) :
        s \in OrderByTimestampDesc(Filtered(tbl, commodity, trader_id, side))}

\* (mutant) get_trades_count comparing the commodity as sent
get_trades_count_commodity_as_sent(tbl, commodity, trader_id, side) ==
    Cardinality({row \in Filtered(tbl, NoneStr, trader_id, side) :
                    Truthy(commodity) => row.commodity = commodity})

\* (mutant) get_trades_count testing `is not None` where get_trades tests
\* truthiness
get_trades_count_is_not_none(tbl, commodity, trader_id, side) ==
    Cardinality({row \in Range(tbl) :
                    /\ commodity # NoneStr => row.commodity = Lower(commodity)
                    /\ trader_id # NoneStr => row.trader_id = trader_id
                    /\ side # NoneStr => row.side = Lower(side)})

\* (mutant) get_trades_count without the side filter
get_trades_count_no_side(tbl, commodity, trader_id, side) ==
    Cardinality(Filtered(tbl, commodity, trader_id, NoneStr))

\* crud.get_trades_count
get_trades_count(tbl, commodity, trader_id, side) ==
    Cardinality(Filtered(tbl, commodity, trader_id, side))

\* (mutant) get_trade_by_id without the id filter: .first() of the table
get_trade_by_id_unfiltered(tbl, trade_id) ==
    IF Range(tbl) = {} THEN {<<>>} ELSE {<<row>> : row \in Range(tbl)}

\* crud.get_trade_by_id: .filter(Trade.id == trade_id).first(); <<>> is None
get_trade_by_id(tbl, trade_id) ==
    LET hit == {row \in Range(tbl) : row.id = trade_id}
    IN  IF hit = {} THEN {<<>>} ELSE {<<row>> : row \in hit}

\* crud.get_recent_trades_by_commodity
get_recent_trades_by_commodity(tbl, commodity, limit) ==
    {Limit(s, limit) :
        s \in OrderByTimestampDesc({row \in Range(tbl) : row.commodity = Lower(commodity)})}

\* crud.get_trader_trades
get_trader_trades(tbl, trader_id, limit) ==
    {Limit(s, limit) :
        s \in OrderByTimestampDesc({row \in Range(tbl) : row.trader_id = trader_id})}

\* ------------------------------------------------------- GET /trades/ steps
\* the handler's first statement: trades = crud.get_trades(...).  seenAt
\* notes the table size the page was read at.
GetTradesPage(c, limit, offset, commodity, trader_id, side) ==
    /\ pc[c] = "idle"
    /\ \E page \in get_trades(store, limit, offset, commodity, trader_id, side) :
          local' = [local EXCEPT ![c] =
                      [kind |-> "trades", trades |-> page, limit |-> limit,
                       offset |-> offset, commodity |-> commodity,
                       trader_id |-> trader_id, side |-> side,
                       seenAt |-> Len(store)]]
    /\ pc' = [pc EXCEPT ![c] = "count"]
    /\ resp' = NoResp
    /\ UNCHANGED <<store, nextId, now, pager, procVars>>

\* total = crud.get_trades_count(...); return TradeResponse(trades, total)
GetTradesCount(c) ==
    /\ pc[c] = "count"
    /\ resp' = [status |-> Http200, client |-> c, op |-> "list",
                args |-> local[c], trades |-> local[c].trades,
                total |-> get_trades_count(store, local[c].commodity,
                                           local[c].trader_id, local[c].side)]
    /\ local' = [local EXCEPT ![c] = NoLocal]
    /\ pc' = [pc EXCEPT ![c] = "idle"]
    /\ UNCHANGED <<store, nextId, now, pager, procVars>>

\* GET /trades/{trade_id}
GetTrade(c, trade_id) ==
    /\ pc[c] = "idle"
    /\ \E trade \in get_trade_by_id(store, trade_id) :
          resp' = IF trade = <<>>
                  THEN [status |-> Http404, client |-> c, op |-> "get",
                        trade_id |-> trade_id]
                  ELSE [status |-> Http200, client |-> c, op |-> "get",
                        trade_id |-> trade_id, trade |-> trade[1]]
    /\ UNCHANGED <<store, nextId, now, pc, local, pager, procVars>>

\* GET /trades/commodity/{commodity}
GetTradesByCommodity(c, commodity, limit) ==
    /\ pc[c] = "idle"
    /\ \E trades \in get_recent_trades_by_commodity(store, commodity, limit) :
          resp' = [status |-> Http200, client |-> c, op |-> "by_commodity",
                   commodity |-> commodity, limit |-> limit, trades |-> trades]
    /\ UNCHANGED <<store, nextId, now, pc, local, pager, procVars>>

\* GET /trades/trader/{trader_id}
GetTradesByTrader(c, trader_id, limit) ==
    /\ pc[c] = "idle"
    /\ \E trades \in get_trader_trades(store, trader_id, limit) :
          resp' = [status |-> Http200, client |-> c, op |-> "by_trader",
                   trader_id |-> trader_id, limit |-> limit, trades |-> trades]
    /\ UNCHANGED <<store, nextId, now, pc, local, pager, procVars>>

\* ------------------------------------------------ reads that fail in the db
\* crud.get_trades or crud.get_trades_count raises: except Exception ->
\* HTTPException(status_code=400)
GetTradesFail(c) ==
    /\ pc[c] \in {"idle", "count"}
    /\ resp' = [status |-> Http400, client |-> c, op |-> "list"]
    /\ local' = [local EXCEPT ![c] = NoLocal]
    /\ pc' = [pc EXCEPT ![c] = "idle"]
    /\ UNCHANGED <<store, nextId, now, pager, procVars>>

\* crud.get_trade_by_id raises: the handler has no except clause, the
\* framework answers 500
GetTradeFail(c, trade_id) ==
    /\ pc[c] = "idle"
    /\ resp' = [status |-> Http500, client |-> c, op |-> "get",
                trade_id |-> trade_id]
    /\ UNCHANGED <<store, nextId, now, pc, local, pager, procVars>>

\* crud.get_recent_trades_by_commodity raises: HTTPException(status_code=400)
GetTradesByCommodityFail(c, commodity, limit) ==
    /\ pc[c] = "idle"
    /\ resp' = [status |-> Http400, client |-> c, op |-> "by_commodity",
                commodity |-> commodity, limit |-> limit]
    /\ UNCHANGED <<store, nextId, now, pc, local, pager, procVars>>

\* crud.get_trader_trades raises: HTTPException(status_code=400)
GetTradesByTraderFail(c, trader_id, limit) ==
    /\ pc[c] = "idle"
    /\ resp' = [status |-> Http400, client |-> c, op |-> "by_trader",
                trader_id |-> trader_id, limit |-> limit]
    /\ UNCHANGED <<store, nextId, now, pc, local, pager, procVars>>

\* ------------------------------------------------- a caller paging the list
\* the caller starts reading GET /trades/?limit=n&offset=0,n,2n,... while no
\* request is in flight
PagerStart(n, f) ==
    /\ pager.state = "off"
    /\ \A c \in Clients : pc[c] = "idle"
    /\ pager' = [state |-> "on", n |-> n, commodity |-> f[1], trader_id |-> f[2],
                 side |-> f[3], k |-> 0, acc |-> <<>>]
    /\ resp' = NoResp
    /\ UNCHANGED <<store, nextId, now, pc, local, procVars>>

\* the caller requests the next page
PagerFetch(c) ==
    /\ pager.state = "on"
    /\ resp = NoResp
    /\ GetTradesPage(c, pager.n, pager.k, pager.commodity, pager.trader_id, pager.side)

\* the caller appends the page it received and moves the offset on by n; an
\* empty page ends the reading
PagerTake ==
    /\ pager.state = "on"
    /\ resp.status = Http200
    /\ resp.op = "list"
    /\ pager' = IF resp.trades = <<>>
                THEN [pager EXCEPT !.state = "end"]
                ELSE [pager EXCEPT !.acc = pager.acc \o resp.trades,
                                   !.k = pager.k + pager.n]
    /\ resp' = NoResp
    /\ UNCHANGED <<store, nextId, now, pc, local, procVars>>

\* ------------------------------------- a caller holding on to one response
\* the request the caller sends next to compare with the response it holds:
\* GET /trades/{id} of the trade a create returned, the same GET /trades/
\* again, or the GET /trades/ that a by-commodity or by-trader listing
\* corresponds to
FollowUp(first, second) ==
    \/ /\ first.op = "create"
       /\ second.op = "get"
       /\ second.trade_id = first.trade.id
    \/ /\ first.op = "list"
       /\ second.op = "list"
       /\ second.args.limit = first.args.limit
       /\ second.args.offset = first.args.offset
       /\ second.args.commodity = first.args.commodity
       /\ second.args.trader_id = first.args.trader_id
       /\ second.args.side = first.args.side
    \/ /\ first.op = "by_commodity"
       /\ second.op = "list"
       /\ second.args.limit = first.limit
       /\ second.args.offset = 0
       /\ second.args.commodity = first.commodity
       /\ second.args.trader_id = NoneStr
       /\ second.args.side = NoneStr
    \/ /\ first.op = "by_trader"
       /\ second.op = "list"
       /\ second.args.limit = first.limit
       /\ second.args.offset = 0
       /\ second.args.commodity = NoneStr
       /\ second.args.trader_id = first.trader_id
       /\ second.args.side = NoneStr

\* the caller keeps a 200 response of one of the operations ops (create,
\* list, by_commodity, by_trader); len notes the table size at that moment
CallerKeep(ops) ==
    /\ pager.state = "off"
    /\ resp.status = Http200
    /\ resp.op \in ops
    /\ resp.op = "list" => resp.args.seenAt = Len(store)
    /\ pager' = [state |-> "kept", first |-> resp, len |-> Len(store)]
    /\ resp' = NoResp
    /\ UNCHANGED <<store, nextId, now, pc, local, procVars>>

\* the caller receives the follow-up response and is done
CallerCompare ==
    /\ pager.state = "kept"
    /\ resp.status # 0
    /\ FollowUp(pager.first, resp)
    /\ pager' = [state |-> "done"]
    /\ resp' = NoResp
    /\ UNCHANGED <<store, nextId, now, pc, local, procVars>>

\* ------------------------------------------------------------ main.get_db
\* every endpoint that takes db = Depends(get_db) starts here.  The steps
\* below follow one request through get_db; what its handler does with the
\* trades table is the subject of the steps above, which take a request up
\* once get_db has yielded the session.
\* ensure_tables_exist reads the flag: `if not tables_created:`; when it is
\* set the request goes on to db = SessionLocal(); yield db
GetDbEnter(r) ==
    /\ dep[r] = "none"
    /\ dep' = [dep EXCEPT ![r] = IF tables_created THEN "session" ELSE "create_all"]
    /\ session' = [session EXCEPT ![r] = IF tables_created THEN Opened ELSE NoSession]
    /\ UNCHANGED <<tradeVars, conn, tables_created, create_all_done>>

\* Base.metadata.create_all(bind=engine) succeeds: tables_created = True;
\* then db = SessionLocal(); yield db
CreateAllOk(r) ==
    /\ dep[r] = "create_all"
    /\ tables_created' = TRUE
    /\ create_all_done' = create_all_done + 1
    /\ dep' = [dep EXCEPT ![r] = "session"]
    /\ session' = [session EXCEPT ![r] = Opened]
    /\ UNCHANGED <<tradeVars, conn>>

\* (mutant) the flag is set although create_all raised
CreateAllFailSetsFlag(r) ==
    /\ dep[r] = "create_all"
    /\ tables_created' = TRUE
    /\ dep' = [dep EXCEPT ![r] = "session"]
    /\ session' = [session EXCEPT ![r] = Opened]
    /\ UNCHANGED <<tradeVars, conn, create_all_done>>

\* create_all raises: the exception is printed and swallowed, the flag
\* stays; then db = SessionLocal(); yield db
CreateAllFail(r) ==
    /\ dep[r] = "create_all"
    /\ dep' = [dep EXCEPT ![r] = "session"]
    /\ session' = [session EXCEPT ![r] = Opened]
    /\ UNCHANGED <<tradeVars, conn, tables_created, create_all_done>>

\* the endpoint runs with the yielded session and returns its response
Serve(r) ==
    /\ dep[r] = "session"
    /\ dep' = [dep EXCEPT ![r] = "served"]
    /\ UNCHANGED <<tradeVars, conn, tables_created, create_all_done, session>>

\* the request ends in an exception after the yield: the body fails
\* validation (422), or the endpoint raises HTTPException (400, 404) or any
\* other exception
ServeRaise(r) ==
    /\ dep[r] = "session"
    /\ dep' = [dep EXCEPT ![r] = "raised"]
    /\ UNCHANGED <<tradeVars, conn, tables_created, create_all_done, session>>

\* (mutant) get_db without the finally clause: an exception skips db.close()
CloseDbUnlessRaised(r) ==
    /\ dep[r] \in {"served", "raised"}
    /\ dep' = [dep EXCEPT ![r] = "none"]
    /\ session' = [session EXCEPT ![r].closed =
                      IF dep[r] = "served" THEN session[r].closed + 1
                      ELSE session[r].closed]
    /\ UNCHANGED <<tradeVars, conn, tables_created, create_all_done>>

\* finally: db.close(); the request is over
CloseDb(r) ==
    /\ dep[r] \in {"served", "raised"}
    /\ dep' = [dep EXCEPT ![r] = "none"]
    /\ session' = [session EXCEPT ![r].closed = session[r].closed + 1]
    /\ UNCHANGED <<tradeVars, conn, tables_created, create_all_done>>

\* ------------------------------------------------ database.test_connection
max_retries == 5
retry_delay == 30

\* (mutant) the retry test as attempt < max_retries
RetryAfterAlways(attempt) == attempt < max_retries

\* `if attempt < max_retries - 1:` in the except clause
RetryAfter(attempt) == attempt < max_retries - 1

\* test_connection() is called: for attempt in range(max_retries)
TestConnectionStart ==
    /\ conn.pc = "idle"
    /\ conn' = [conn EXCEPT !.pc = "connect"]
    /\ UNCHANGED <<tradeVars, getDbVars>>

\* engine.connect() and SELECT 1 succeed: return True
ConnectOk ==
    /\ conn.pc = "connect"
    /\ conn' = [conn EXCEPT !.attempts = conn.attempts + 1,
                            !.result = "True", !.pc = "done"]
    /\ UNCHANGED <<tradeVars, getDbVars>>

\* the attempt raises: time.sleep(retry_delay) is begun unless this was the
\* last attempt, which returns False
ConnectFail ==
    /\ conn.pc = "connect"
    /\ conn' = IF RetryAfter(conn.attempt)
               THEN [conn EXCEPT !.attempts = conn.attempts + 1,
                                 !.waits = conn.waits + 1,
                                 !.left = retry_delay, !.pc = "sleep"]
               ELSE [conn EXCEPT !.attempts = conn.attempts + 1,
                                 !.result = "False", !.pc = "done"]
    /\ UNCHANGED <<tradeVars, getDbVars>>

\* one second of time.sleep(retry_delay) passes
SleepSecond ==
    /\ conn.pc = "sleep"
    /\ conn.left > 0
    /\ conn' = [conn EXCEPT !.left = conn.left - 1]
    /\ UNCHANGED <<tradeVars, getDbVars>>

\* the sleep is over: the loop goes to its next attempt, or, when the range
\* is used up, falls through to the final return False
SleepOver ==
    /\ conn.pc = "sleep"
    /\ conn.left = 0
    /\ conn' = IF conn.attempt + 1 < max_retries
               THEN [conn EXCEPT !.attempt = conn.attempt + 1, !.pc = "connect"]
               ELSE [conn EXCEPT !.attempt = conn.attempt + 1,
                                 !.result = "False", !.pc = "done"]
    /\ UNCHANGED <<tradeVars, getDbVars>>

\* ------------------------------------------------------------ request data
Body(co, p, q, sd, tr) ==
    [commodity |-> co, price |-> p, quantity |-> q, side |-> sd, trader_id |-> tr]

\* request bodies of the running service: two that validate, one that does not
Bodies ==
    {Body(<<"O","i","l">>, 1, 2, buy, <<"t","1">>),
     Body(gas, 1, 2, sell, <<"T","1">>),
     Body(oil, 0, 2, buy, <<"t","1">>)}

\* request bodies that carry an id and a timestamp besides the five fields
ExtraBodies ==
    {[commodity |-> <<"O","i","l">>, price |-> 1, quantity |-> 2, side |-> buy,
      trader_id |-> <<"t","1">>, id |-> 7, timestamp |-> 9],
     [commodity |-> gas, price |-> 1, quantity |-> 2, side |-> sell,
      trader_id |-> <<"T","1">>, id |-> 1],
     [commodity |-> gas, price |-> 0, quantity |-> 2, side |-> sell,
      trader_id |-> <<"T","1">>, id |-> 7, timestamp |-> 9]}

\* request bodies for validation: every combination of these field values
CommodityValues == {<<"O","i","l">>, <<"w","o","o","d">>, <<>>}
PriceValues == {-1, 0, 1}
QuantityValues == {-1, 0, 2}
SideValues == {buy, <<"B","U","Y">>}
TraderIdValues == {<<"t","1">>, <<"a","_","!">>, <<"a","-"," ">>, <<"a","!">>, <<>>}
AllBodies ==
    {Body(co, p, q, sd, tr) :
        co \in CommodityValues, p \in PriceValues, q \in QuantityValues,
        sd \in SideValues, tr \in TraderIdValues}

\* query arguments <<commodity, trader_id, side>> of GET /trades/
FilterArgs ==
    {<<NoneStr, NoneStr, NoneStr>>,
     <<<<"O","I","L">>, NoneStr, NoneStr>>,
     <<NoneStr, NoneStr, <<"S","E","L","L">>>>,
     <<<<>>, <<"t","1">>, NoneStr>>}
CommodityArgs == {<<"O","I","L">>, gas}
TraderArgs == {<<"t","1">>, <<"T","1">>}
Limits == {1, 2}
Offsets == {0, 1}
TradeIds == 1..(MaxTrades + 1)

\* ------------------------------------------------------------- the service
\* one caller writing (c2) while another reads (c1); identity values are
\* used without gaps here (NextCreate has the failures that leave gaps)
Next ==
    \/ \E body \in Bodies : PostTradeInvalid("c2", body)
    \/ \E body \in Bodies : PostTradeValid("c2", body)
    \/ InsertOk("c2")
    \/ InsertFail("c2", 0)
    \/ CommitOk("c2")
    \/ RefreshOk("c2")
    \/ RefreshFail("c2")
    \/ \E limit \in Limits, offset \in Offsets, f \in FilterArgs :
          GetTradesPage("c1", limit, offset, f[1], f[2], f[3])
    \/ GetTradesCount("c1")
    \/ \E trade_id \in TradeIds : GetTrade("c1", trade_id)
    \/ \E commodity \in CommodityArgs, limit \in Limits :
          GetTradesByCommodity("c1", commodity, limit)
    \/ \E trader_id \in TraderArgs, limit \in Limits :
          GetTradesByTrader("c1", trader_id, limit)
    \/ Tick

Spec == Init /\ [][Next]_vars

\* the caller has taken the response
Deliver ==
    /\ resp # NoResp
    /\ resp' = NoResp
    /\ UNCHANGED <<store, nextId, now, pc, local, pager, procVars>>

\* POST /trades/ alone, one caller, every body of AllBodies; the caller
\* takes a response before it sends a body that does not validate
NextValidate ==
    \/ resp = NoResp /\ \E body \in AllBodies : PostTradeInvalid("c1", body)
    \/ \E body \in AllBodies : PostTradeValid("c1", body)
    \/ InsertOk("c1")
    \/ \E burn \in {0, 1} : InsertFail("c1", burn)
    \/ CommitOk("c1")
    \/ CommitFail("c1")
    \/ RefreshOk("c1")
    \/ RefreshFail("c1")
    \/ Deliver

SpecValidate == Init /\ [][NextValidate]_vars

\* POST /trades/ from two callers at once
NextCreate ==
    \/ \E c \in Clients, body \in Bodies : PostTradeInvalid(c, body)
    \/ \E c \in Clients, body \in Bodies : PostTradeValid(c, body)
    \/ \E c \in Clients : InsertOk(c)
    \/ \E c \in Clients, burn \in {0, 1} : InsertFail(c, burn)
    \/ \E c \in Clients : CommitOk(c)
    \/ \E c \in Clients : CommitFail(c)
    \/ \E c \in Clients : RefreshOk(c)
    \/ \E c \in Clients : RefreshFail(c)
    \/ Tick

SpecCreate == Init /\ [][NextCreate]_vars

\* trades are created, then a caller pages through the list with no write
\* in between
PagerFilterArgs ==
    {<<NoneStr, NoneStr, NoneStr>>, <<<<"O","I","L">>, NoneStr, NoneStr>>}

NextPaging ==
    \/ pager.state = "off" /\ \E body \in Bodies : PostTradeValid("c2", body)
    \/ pager.state = "off" /\ InsertOk("c2")
    \/ pager.state = "off" /\ CommitOk("c2")
    \/ pager.state = "off" /\ RefreshOk("c2")
    \/ pager.state = "off" /\ Tick
    \/ \E n \in Limits, f \in PagerFilterArgs : PagerStart(n, f)
    \/ PagerFetch("c1")
    \/ GetTradesCount("c1")
    \/ PagerTake

SpecPaging == Init /\ [][NextPaging]_vars

\* trades are created and read by id while a caller keeps the record one
\* create returned and later reads it by its id
NextRoundTrip ==
    \/ \E body \in Bodies : PostTradeValid("c2", body)
    \/ InsertOk("c2")
    \/ InsertFail("c2", 1)
    \/ CommitOk("c2")
    \/ RefreshOk("c2")
    \/ RefreshFail("c2")
    \/ \E trade_id \in TradeIds : GetTrade("c1", trade_id)
    \/ Tick
    \/ CallerKeep({"create"})
    \/ CallerCompare

SpecRoundTrip == Init /\ [][NextRoundTrip]_vars

\* trades are created, then a caller keeps the response of one listing and
\* compares it with a second listing, with no write in between
RepeatFilterArgs ==
    {<<<<"O","I","L">>, NoneStr, NoneStr>>, <<NoneStr, <<"t","1">>, NoneStr>>}

NextRepeat ==
    \/ pager.state = "off" /\ \E body \in Bodies : PostTradeValid("c2", body)
    \/ pager.state = "off" /\ InsertOk("c2")
    \/ pager.state = "off" /\ CommitOk("c2")
    \/ pager.state = "off" /\ RefreshOk("c2")
    \/ pager.state = "off" /\ Tick
    \/ \E limit \in Limits, offset \in Offsets, f \in RepeatFilterArgs :
          GetTradesPage("c1", limit, offset, f[1], f[2], f[3])
    \/ GetTradesCount("c1")
    \/ \E limit \in Limits : GetTradesByCommodity("c1", <<"O","I","L">>, limit)
    \/ \E limit \in Limits : GetTradesByTrader("c1", <<"t","1">>, limit)
    \/ CallerKeep({"list", "by_commodity", "by_trader"})
    \/ CallerCompare

SpecRepeat == Init /\ [][NextRepeat]_vars

\* requests are served while the database may fail under any statement
NextErrors ==
    \/ \E body \in Bodies : PostTradeInvalid("c2", body)
    \/ \E body \in Bodies : PostTradeValid("c2", body)
    \/ InsertOk("c2")
    \/ \E burn \in 0..1 : InsertFail("c2", burn)
    \/ CommitOk("c2")
    \/ CommitFail("c2")
    \/ RefreshOk("c2")
    \/ RefreshFail("c2")
    \/ \E limit \in Limits, f \in PagerFilterArgs :
          GetTradesPage("c1", limit, 0, f[1], f[2], f[3])
    \/ GetTradesCount("c1")
    \/ GetTradesFail("c1")
    \/ \E trade_id \in TradeIds : GetTrade("c1", trade_id)
    \/ \E trade_id \in TradeIds : GetTradeFail("c1", trade_id)
    \/ \E limit \in Limits : GetTradesByCommodity("c1", gas, limit)
    \/ \E limit \in Limits : GetTradesByCommodityFail("c1", gas, limit)
    \/ \E limit \in Limits : GetTradesByTrader("c1", <<"T","1">>, limit)
    \/ \E limit \in Limits : GetTradesByTraderFail("c1", <<"T","1">>, limit)

SpecErrors == Init /\ [][NextErrors]_vars

\* POST /trades/ from two callers whose bodies carry an id and a timestamp
NextExtra ==
    \/ \E c \in Clients, body \in ExtraBodies : PostTradeInvalid(c, body)
    \/ \E c \in Clients, body \in ExtraBodies : PostTradeValid(c, body)
    \/ \E c \in Clients : InsertOk(c)
    \/ \E c \in Clients : CommitOk(c)
    \/ \E c \in Clients : RefreshOk(c)
    \/ Tick

SpecExtra == Init /\ [][NextExtra]_vars

\* requests pass through get_db at the same time
NextProcess ==
    \/ \E r \in Requests : GetDbEnter(r)
    \/ \E r \in Requests : CreateAllOk(r)
    \/ \E r \in Requests : CreateAllFail(r)
    \/ \E r \in Requests : Serve(r)
    \/ \E r \in Requests : ServeRaise(r)
    \/ \E r \in Requests : CloseDb(r)

SpecProcess == Init /\ [][NextProcess]_vars

\* the same, where every step of a request that can be taken is taken in the
\* end: create_all returns or raises, the endpoint returns or raises, and the
\* finally clause runs
ProcessFairness ==
    \A r \in Requests :
        /\ WF_vars(CreateAllOk(r) \/ CreateAllFail(r))
        /\ WF_vars(Serve(r) \/ ServeRaise(r))
        /\ WF_vars(CloseDb(r))

SpecProcessFair == SpecProcess /\ ProcessFairness

\* POST /trades/ with bodies that differ in their commodity: allowed values
\* in several spellings, a value outside the list, the empty string
CommodityBodies ==
    {Body(co, p, 2, buy, <<"t","1">>) :
        co \in {<<"O","i","l">>, <<"O","I","L">>, gas, <<"G","a","S">>, natural_gas,
                <<"w","o","o","d">>, <<"o","i","l","s">>, <<>>},
        p \in {0, 1}}

NextCommodity ==
    \/ \E body \in CommodityBodies : PostTradeInvalid("c1", body)
    \/ \E body \in CommodityBodies : PostTradeValid("c1", body)
    \/ InsertOk("c1")
    \/ CommitOk("c1")
    \/ RefreshOk("c1")

SpecCommodity == Init /\ [][NextCommodity]_vars

\* trades are created while GET /trades/ is called with offset 0, a limit the
\* table cannot exceed, and every combination of these filter values: None,
\* the empty string, and non-empty strings in lower and upper case
CountCommodityArgs == {NoneStr, <<>>, <<"O","I","L">>, gas}
CountTraderArgs == {NoneStr, <<>>, <<"T","1">>}
CountSideArgs == {NoneStr, <<>>, <<"S","E","L","L">>, buy}

NextCount ==
    \/ \E body \in Bodies : PostTradeValid("c2", body)
    \/ InsertOk("c2")
    \/ CommitOk("c2")
    \/ RefreshOk("c2")
    \/ \E commodity \in CountCommodityArgs, trader_id \in CountTraderArgs,
          side \in CountSideArgs :
          GetTradesPage("c1", MaxTrades, 0, commodity, trader_id, side)
    \/ GetTradesCount("c1")

SpecCount == Init /\ [][NextCount]_vars

\* one call of test_connection against a database that may or may not answer
NextConnect ==
    \/ TestConnectionStart
    \/ ConnectOk
    \/ ConnectFail
    \/ SleepSecond
    \/ SleepOver

SpecConnect == Init /\ [][NextConnect]_vars

\* the same, where the call keeps running: each attempt returns or raises
\* and each sleep ends
SpecConnectFair == SpecConnect /\ WF_vars(NextConnect)

\* ------------------------------------------------------------------ claims
\* what the claims read off a response
IsResp(op) == resp.status # 0 /\ resp.op = op
NoDuplicates(s) == \A i, j \in DOMAIN s : i # j => s[i] # s[j]

\* the characters [A-Za-z0-9_-]
TraderIdChars ==
    {"a","b","c","d","e","f","g","h","i","j","k","l","m","n","o","p","q","r","s",
     "t","u","v","w","x","y","z","A","B","C","D","E","F","G","H","I","J","K","L",
     "M","N","O","P","Q","R","S","T","U","V","W","X","Y","Z","0","1","2","3","4",
     "5","6","7","8","9","_","-"}
HasForbiddenChar(v) == \E i \in DOMAIN v : v[i] \notin TraderIdChars

\* C1: every POST /trades/ body whose trader_id holds a character outside
\* [A-Za-z0-9_-] is answered 422, and no stored or pending trade has such a
\* trader_id.
C1_ForbiddenTraderIdRejected ==
    /\ IsResp("create") /\ HasForbiddenChar(resp.body.trader_id)
          => resp.status = Http422
    /\ \A row \in Rows : ~HasForbiddenChar(row.trader_id)
    /\ \A c \in Clients :
          local[c].kind = "db_trade" => ~HasForbiddenChar(local[c].t.trader_id)

\* C2: a POST /trades/ answered 200 returns a stored row with id and
\* timestamp set; one answered with a failure leaves no row of its own in
\* the table.
C2_CreateAtomic ==
    /\ IsResp("create") /\ resp.status = Http200
          => /\ resp.trade \in Rows
             /\ resp.trade.id >= 1
             /\ resp.trade.timestamp \in 0..MaxClock
    /\ IsResp("create") /\ resp.status = Http400
          => \A row \in Rows : row.id # resp.db_trade_id

\* a row satisfies the filters a caller supplied (None is not supplied):
\* commodity and side compared without regard to case, trader_id exactly
SatisfiesSupplied(row, commodity, trader_id, side) ==
    /\ commodity # NoneStr => Lower(row.commodity) = Lower(commodity)
    /\ trader_id # NoneStr => row.trader_id = trader_id
    /\ side # NoneStr => Lower(row.side) = Lower(side)

\* C3: when a caller has read the pages limit=n, offset=0,n,2n,... up to the
\* first empty page with no write in between, the pages put together hold
\* every stored row that matches the filters exactly once, most recent
\* first.
C3_PagesCoverOnce ==
    pager.state = "end"
        => /\ NoDuplicates(pager.acc)
           /\ Range(pager.acc) =
                 {row \in Rows :
                     SatisfiesSupplied(row, pager.commodity, pager.trader_id, pager.side)}
           /\ \A i, j \in DOMAIN pager.acc :
                 i < j => pager.acc[i].timestamp >= pager.acc[j].timestamp

\* C4: in every list, by-commodity and by-trader response, rows of equal
\* timestamp come in descending id order.
C4_TiesByIdDesc ==
    (IsResp("list") \/ IsResp("by_commodity") \/ IsResp("by_trader"))
        /\ resp.status = Http200
        => \A i, j \in DOMAIN resp.trades :
              i < j /\ resp.trades[i].timestamp = resp.trades[j].timestamp
                 => resp.trades[i].id > resp.trades[j].id

\* C5: in every unfiltered list response, for every limit and offset, a row
\* with a later timestamp comes before a row with an earlier one.
Unfiltered(args) ==
    args.commodity = NoneStr /\ args.trader_id = NoneStr /\ args.side = NoneStr
C5_LaterTimestampFirst ==
    IsResp("list") /\ resp.status = Http200 /\ Unfiltered(resp.args)
        => \A i, j \in DOMAIN resp.trades :
              resp.trades[i].timestamp > resp.trades[j].timestamp => i < j

\* C5 witness: an unfiltered list response that holds two rows of different
\* timestamps
C5_Witness ==
    /\ IsResp("list") /\ resp.status = Http200 /\ Unfiltered(resp.args)
    /\ Len(resp.trades) = 2
    /\ resp.trades[1].timestamp > resp.trades[2].timestamp

\* C6: no step of the API removes or changes a stored trade: every row
\* stays at its place with its id and field values, and the number of rows
\* never decreases.
C6_AppendOnly ==
    [][/\ Len(store') >= Len(store)
       /\ \A i \in DOMAIN store : store'[i] = store[i]]_vars

\* C6 witness: a lookup by id has been answered from a table of two
\* trades
C6_Witness ==
    /\ Len(store) = 2
    /\ IsResp("get") /\ resp.status = Http200

\* C7: a POST /trades/ body with price <= 0 or quantity <= 0 is answered 422
\* by a step that leaves the table as it was, and no stored trade has
\* price <= 0 or quantity <= 0.
NonPositive(body) == body.price <= 0 \/ body.quantity <= 0
C7_NonPositiveRejected ==
    /\ [](\A row \in Rows : row.price > 0 /\ row.quantity > 0)
    /\ [](\A c \in Clients : local[c].kind = "db_trade" => ~NonPositive(local[c].body))
    /\ [][resp'.status # 0 /\ resp'.op = "create" /\ NonPositive(resp'.body)
             => resp'.status = Http422 /\ store' = store /\ nextId' = nextId]_vars

\* C7 witness: a body with a non-positive price or quantity whose other
\* fields validate has been answered 422 while the table holds a trade
C7_Witness ==
    /\ IsResp("create") /\ resp.status = Http422
    /\ NonPositive(resp.body)
    /\ Valid([resp.body EXCEPT !.price = 1, !.quantity = 1])
    /\ Len(store) >= 1

\* C8: every stored trade has a lowercase commodity of the allowed set, a
\* timestamp, and an id no trade stored before it has; a create answered
\* 200 returns the row stored last, its commodity the body's in lowercase.
IsLowercase(v) == \A i \in DOMAIN v : v[i] \notin UpperSet
C8_StoredCanonical ==
    /\ \A i \in DOMAIN store :
          /\ IsLowercase(store[i].commodity)
          /\ store[i].commodity \in allowed_commodities
          /\ store[i].timestamp \in Nat
          /\ store[i].id >= 1
          /\ \A j \in DOMAIN store : j < i => store[j].id # store[i].id
    /\ IsResp("create") /\ resp.status = Http200
          => /\ resp.trade = store[Len(store)]
             /\ resp.trade.commodity = Lower(resp.body.commodity)
             /\ Valid(resp.body)

\* C8 witness: a second trade, sent with a mixed-case commodity, has been
\* created and returned
C8_Witness ==
    /\ IsResp("create") /\ resp.status = Http200
    /\ Len(store) = 2
    /\ resp.body.commodity # Lower(resp.body.commodity)

\* C9: whatever the interleaving of concurrent creates, no two trades (stored
\* or inserted and not yet committed) share an id, and an INSERT gets an id
\* larger than every id given out before it.
PendingRows == {local[c].t : c \in {d \in Clients : pc[d] = "commit"}}
GivenIds == {row.id : row \in Rows \cup PendingRows}
C9_IdsUniqueIncreasing ==
    /\ [](\A i, j \in DOMAIN store : i # j => store[i].id # store[j].id)
    /\ [](\A row \in Rows, p \in PendingRows : row.id # p.id)
    /\ [](\A c, d \in Clients :
            pc[c] = "commit" /\ pc[d] = "commit" /\ c # d => local[c].id # local[d].id)
    /\ [][\A c \in Clients :
            pc[c] = "flush" /\ pc'[c] = "commit"
               => \A id \in GivenIds : local'[c].id > id]_vars

\* C9 witness: two callers create at once; the one that inserted second has
\* committed first, the other's trade is still uncommitted
C9_Witness ==
    /\ pc["c1"] = "commit" /\ pc["c2"] = "refresh"
    /\ local["c2"].id > local["c1"].id
    /\ Len(store) = 1

\* C10: the total of a list response is the number of stored trades that
\* match the filters of the request, whatever its limit and offset; when no
\* write came between the page query and the count query the page holds
\* Min(limit, total - offset) of them (all of them for offset 0 and
\* limit >= total).  A filter is in force when its value is neither None
\* nor the empty string.
InForce(f) == f # NoneStr /\ f # <<>>
MatchesRequest(row, args) ==
    /\ InForce(args.commodity) => Lower(row.commodity) = Lower(args.commodity)
    /\ InForce(args.trader_id) => row.trader_id = args.trader_id
    /\ InForce(args.side) => Lower(row.side) = Lower(args.side)
Max(a, b) == IF a > b THEN a ELSE b
C10_TotalIsMatchCount ==
    IsResp("list") /\ resp.status = Http200
        => LET matching == {row \in Rows : MatchesRequest(row, resp.args)}
           IN  /\ resp.total = Cardinality(matching)
               /\ resp.args.seenAt = Len(store)
                     => /\ Len(resp.trades) =
                              Min(resp.args.limit, Max(0, resp.total - resp.args.offset))
                        /\ Range(resp.trades) \subseteq matching
                        /\ NoDuplicates(resp.trades)

\* C10 witness: a list filtered on commodity OIL over a table of one oil and
\* one gas trade answers the oil trade and total 1
C10_Witness ==
    /\ IsResp("list") /\ resp.status = Http200
    /\ resp.args.commodity = <<"O","I","L">>
    /\ Len(store) = 2
    /\ resp.total = 1
    /\ Len(resp.trades) = 1
    /\ resp.trades[1].commodity = oil

\* C11: with each of the three filters either absent or supplied with any
\* string value, every row a list response holds satisfies every supplied
\* filter, and when the response is not cut by limit or offset it holds
\* every stored row that satisfies them all.
Unpaginated(r) ==
    /\ r.args.seenAt = Len(store)
    /\ r.args.offset = 0
    /\ r.total <= r.args.limit
C11_FiltersConjunctive ==
    IsResp("list") /\ resp.status = Http200
        => LET a == resp.args
           IN  /\ \A i \in DOMAIN resp.trades :
                     SatisfiesSupplied(resp.trades[i], a.commodity, a.trader_id, a.side)
               /\ Unpaginated(resp)
                     => \A row \in Rows :
                           SatisfiesSupplied(row, a.commodity, a.trader_id, a.side)
                              => row \in Range(resp.trades)

\* C12: a list response not cut by limit or offset holds exactly the stored
\* rows whose commodity and side equal the filter values up to letter case
\* and whose trader_id equals the filter value character for character.
SameUpToCase(a, b) == Lower(a) = Lower(b)
C12_CaseRules ==
    IsResp("list") /\ resp.status = Http200 /\ Unpaginated(resp)
        => \A row \in Rows :
              row \in Range(resp.trades)
                 <=> /\ InForce(resp.args.commodity)
                          => SameUpToCase(row.commodity, resp.args.commodity)
                     /\ InForce(resp.args.side)
                          => SameUpToCase(row.side, resp.args.side)
                     /\ InForce(resp.args.trader_id)
                          => row.trader_id = resp.args.trader_id

\* C12 witness: the filter side=SELL over a table of one buy and one sell
\* trade selects the trade stored as sell and leaves the other out
C12_Witness ==
    /\ IsResp("list") /\ resp.status = Http200 /\ Unpaginated(resp)
    /\ resp.args.side = <<"S","E","L","L">>
    /\ Len(store) = 2
    /\ Len(resp.trades) = 1
    /\ resp.trades[1].side = sell
    /\ \E row \in Rows : row.side = buy

\* C13: a get for an id that no stored row has answers not-found, a get for
\* an id some stored row has does not, and a get step leaves the table and
\* the identity counter as they were.
C13_AbsentIdNotFound ==
    [][(resp'.status # 0 /\ resp'.op = "get")
         => /\ (\A row \in Range(store) : row.id # resp'.trade_id)
                  <=> resp'.status = Http404
            /\ store' = store
            /\ nextId' = nextId]_vars

\* C13 witness: a get for id 3 over a table holding ids 1 and 2 answers 404
C13_Witness ==
    /\ IsResp("get") /\ resp.status = Http404
    /\ resp.trade_id = 3
    /\ {row.id : row \in Rows} = {1, 2}

\* the step on which the caller receives the follow-up to a kept response of
\* the given operation
Compares(op) ==
    /\ pager.state = "kept"
    /\ pager'.state = "done"
    /\ pager.first.op = op

\* C14: when a create returned the record R, a later get of R.id, whatever
\* requests were served in between, answers 200 with a record equal to R in
\* id, commodity, price, quantity, side, trader_id and timestamp.
C14_RoundTrip ==
    [][Compares("create")
         => resp.status = Http200 /\ resp.trade = pager.first.trade]_vars

\* C14 witness: the caller holds the record a create returned, a further
\* trade has been stored since, and a get of the record's id answers it
C14_Witness ==
    /\ pager.state = "kept"
    /\ pager.first.op = "create"
    /\ Len(store) > pager.len
    /\ IsResp("get") /\ resp.status = Http200
    /\ resp.trade_id = pager.first.trade.id
    /\ resp.trade = pager.first.trade

\* no row was stored between the kept response and the follow-up
NoWriteBetween ==
    /\ Len(store) = pager.len
    /\ resp.args.seenAt = pager.len

\* C15: two list calls with the same filters, limit and offset and no write
\* between them answer the same sequence of rows and the same total, and a
\* list step leaves the table as it was.
C15_ReadsIdempotent ==
    /\ [][Compares("list") /\ NoWriteBetween
            => /\ resp.trades = pager.first.trades
               /\ resp.total = pager.first.total]_vars
    /\ [][(resp'.status # 0 /\ resp'.op = "list") => store' = store]_vars

\* C20: with no write in between, a by-commodity listing with limit n holds
\* the same sequence as the list call with that commodity as its only
\* filter, limit n and offset 0, and a by-trader listing the same sequence as
\* the list call with that trader_id as its only filter; each holds at most
\* n rows, later timestamps first.
C20_ListingsAgreeWithList ==
    [][(Compares("by_commodity") \/ Compares("by_trader")) /\ NoWriteBetween
         => /\ pager.first.trades = resp.trades
            /\ Len(pager.first.trades) <= pager.first.limit
            /\ \A i, j \in DOMAIN pager.first.trades :
                  i < j => pager.first.trades[i].timestamp
                              >= pager.first.trades[j].timestamp]_vars

\* C16: a create whose body fails validation is answered with a 4xx status,
\* a create or a listing that fails in the database with a 5xx status, and
\* a get of an id that no stored row has with 404.
StorageFailed ==
    \/ IsResp("create") /\ Valid(resp.body) /\ resp.status # Http200
    \/ (IsResp("list") \/ IsResp("by_commodity") \/ IsResp("by_trader"))
          /\ resp.status # Http200
C16_ErrorMapping ==
    /\ IsResp("create") /\ ~Valid(resp.body)
          => resp.status >= 400 /\ resp.status <= 499
    /\ StorageFailed => resp.status >= 500 /\ resp.status <= 599
    /\ IsResp("get") /\ resp.status = Http200
          => \E row \in Rows : row.id = resp.trade_id
    /\ IsResp("get") /\ resp.status = Http404
          => \A row \in Rows : row.id # resp.trade_id

\* C17: a create body is never rejected when the lowercase form of its
\* commodity is one of the six allowed values and its other fields validate,
\* and always rejected when it is not one of them; the validated candidate
\* has the commodity in lowercase and price, quantity, side and trader_id
\* as sent.
OtherFieldsValid(body) ==
    /\ body.price > 0
    /\ body.quantity > 0
    /\ body.side \in {buy, sell}
    /\ TraderIdOk(body.trader_id)
C17_CommodityValidation ==
    /\ IsResp("create") /\ Lower(resp.body.commodity) \notin allowed_commodities
          => resp.status = Http422
    /\ IsResp("create") /\ resp.status = Http422 /\ OtherFieldsValid(resp.body)
          => Lower(resp.body.commodity) \notin allowed_commodities
    /\ \A c \in Clients :
          local[c].kind = "db_trade"
             => /\ Lower(local[c].body.commodity) \in allowed_commodities
                /\ local[c].t.commodity = Lower(local[c].body.commodity)
                /\ local[c].t.price = local[c].body.price
                /\ local[c].t.quantity = local[c].body.quantity
                /\ local[c].t.side = local[c].body.side
                /\ local[c].t.trader_id = local[c].body.trader_id

\* C17 witness: the body with commodity Oil has validated and its candidate,
\* not yet inserted, carries the commodity oil
C17_Witness ==
    /\ pc["c1"] = "flush"
    /\ local["c1"].body.commodity = <<"O","i","l">>
    /\ local["c1"].t.commodity = oil

\* C18: whatever a create body holds, the candidate handed to the store has
\* the five fields commodity, price, quantity, side and trader_id and no
\* other, and the INSERT gives the row the identity counter's value as id and
\* the database clock's value as timestamp.
TradeCreateFields == {"commodity", "price", "quantity", "side", "trader_id"}
C18_IdAndTimestampFromStore ==
    /\ [](\A c \in Clients :
            pc[c] = "flush" => DOMAIN local[c].t = TradeCreateFields)
    /\ [][\A c \in Clients :
            pc[c] = "flush" /\ pc'[c] = "commit"
               => /\ local'[c].t.id = nextId
                  /\ local'[c].t.timestamp = now]_vars

\* C18 witness: a body sent with id 7 and timestamp 9 has been created and
\* returned with the id and the timestamp the store gave it
C18_Witness ==
    /\ IsResp("create") /\ resp.status = Http200
    /\ "id" \in DOMAIN resp.body /\ "timestamp" \in DOMAIN resp.body
    /\ resp.trade.id # resp.body.id
    /\ resp.trade.timestamp # resp.body.timestamp
    /\ resp.trade = store[Len(store)]

\* C19: besides the trades table the process has no variable that one
\* request writes and another reads: a request entering get_db finds
\* tables_created as the process started with, written by no request.
C19_NoSharedProcessState ==
    [][\A r \in Requests :
          dep[r] = "none" /\ dep'[r] # "none" => tables_created = FALSE]_vars

\* C21: tables_created is true only when a create_all call has returned;
\* once true it stays true; a create_all that raises leaves the flag as it
\* was and the request goes on to its session; and a request entering get_db
\* while the flag is false attempts create_all.
C21_LazySchemaFlag ==
    /\ [](tables_created => create_all_done >= 1)
    /\ [][tables_created => tables_created']_vars
    /\ [][\A r \in Requests :
            dep[r] = "create_all" /\ dep'[r] # "create_all"
               /\ create_all_done' = create_all_done
               => tables_created' = tables_created /\ dep'[r] = "session"]_vars
    /\ [][\A r \in Requests :
            dep[r] = "none" /\ dep'[r] # "none" /\ ~tables_created
               => dep'[r] = "create_all"]_vars

\* C21 witness: the flag is false, a request whose create_all raised holds
\* its session, and the next request is attempting create_all
C21_Witness ==
    /\ ~tables_created
    /\ create_all_done = 0
    /\ dep["r1"] = "session"
    /\ dep["r2"] = "create_all"

\* C22: whatever the interleaving of first requests, at most one create_all
\* call returns successfully in the life of the process, and no two requests
\* are inside create_all at once.
C22_SchemaCreatedOnce ==
    /\ create_all_done <= 1
    /\ Cardinality({r \in Requests : dep[r] = "create_all"}) <= 1

\* C25: a request opens at most one session, never closes it more than
\* once, has closed it exactly once when it is over, also when the request
\* ended in an exception, and every session that is opened is closed in the
\* end.
C25_SessionClosedOnce ==
    /\ [](\A r \in Requests :
            /\ session[r].opened <= 1
            /\ session[r].closed <= session[r].opened
            /\ dep[r] = "none" => session[r].closed = session[r].opened
            /\ dep[r] \in {"session", "served", "raised"} => session[r] = Opened)
    /\ \A r \in Requests :
          (session[r] = Opened) ~> (session[r].closed = 1)

\* C25 witness: a request that ended in an exception is over and its session
\* is closed, while another request holds an open session
C25_Witness ==
    /\ dep["r1"] = "none"
    /\ session["r1"] = [opened |-> 1, closed |-> 1]
    /\ dep["r2"] = "raised"
    /\ session["r2"] = Opened

\* C23: in every list response, also when a trade was committed between the
\* handler's page query and its count query, total is at least the number
\* of rows in the page.
C23_TotalCoversPage ==
    IsResp("list") /\ resp.status = Http200
        => resp.total >= Len(resp.trades)

\* C23 witness: a trade was committed between the page query and the count
\* query of a list call whose limit did not cut the page, and total exceeds
\* the page length
C23_Witness ==
    /\ IsResp("list") /\ resp.status = Http200
    /\ resp.args.seenAt < Len(store)
    /\ Len(resp.trades) < resp.args.limit
    /\ resp.total > Len(resp.trades)

\* C24: for every combination of commodity, trader_id and side, each None,
\* empty or a non-empty string in any case, a list call with offset 0 and a
\* limit not smaller than the table, with no write between its two queries,
\* reports as total the number of rows in its page.
C24_CountMatchesPage ==
    IsResp("list") /\ resp.status = Http200
        /\ resp.args.seenAt = Len(store)
        /\ resp.args.offset = 0
        /\ resp.args.limit >= Len(store)
        => resp.total = Len(resp.trades)

\* C24 witness: with commodity and trader_id empty and side SELL, over a
\* table of one buy and one sell trade, the page holds the sell trade and
\* total is 1
C24_Witness ==
    /\ IsResp("list") /\ resp.status = Http200
    /\ resp.args.seenAt = Len(store)
    /\ resp.args.commodity = <<>>
    /\ resp.args.trader_id = <<>>
    /\ resp.args.side = <<"S","E","L","L">>
    /\ Len(store) = 2
    /\ resp.total = 1
    /\ Len(resp.trades) = 1

\* C26: test_connection makes at most max_retries attempts and ends; it
\* returns True at the first attempt that succeeds, having waited once after
\* each failed attempt before it, and False exactly when all max_retries
\* attempts failed, having waited max_retries - 1 times; a wait begins only
\* after a failed attempt that is not the last, and nothing follows the
\* return.
C26_TestConnectionTerminates ==
    /\ [](/\ conn.attempts <= max_retries
          /\ conn.waits <= max_retries - 1
          /\ conn.pc = "done"
                => conn.result \in {"True", "False"}
          /\ conn.result = "True"
                => conn.pc = "done" /\ conn.waits = conn.attempts - 1
          /\ conn.result = "False"
                => /\ conn.pc = "done"
                   /\ conn.attempts = max_retries
                   /\ conn.waits = max_retries - 1)
    /\ [][conn'.waits # conn.waits
            => /\ conn.pc = "connect"
               /\ conn'.waits = conn.waits + 1
               /\ conn'.attempts = conn.attempts + 1
               /\ conn'.attempts < max_retries
               /\ conn'.left = retry_delay]_vars
    /\ [][conn.pc = "done" => conn' = conn]_vars
    /\ (conn.pc = "connect") ~> (conn.pc = "done")

\* C26 witness: all five attempts have failed, four waits have been made and
\* the call has returned False
C26_Witness ==
    /\ conn.pc = "done"
    /\ conn.result = "False"
    /\ conn.attempts = 5
    /\ conn.waits = 4

====
